---- MODULE Spec2Model ----
(***************************************************************************)
(* Face identity resolution engine of FaceRecoJava's Python side:          *)
(*   face_recognition_service.py  (class FaceRecognitionService)           *)
(*   realtime_face_recognition.py (class RealTimeRecognition)              *)
(* The persisted store (three files of the model directory) outlives the   *)
(* processes; one object of one of the two classes is alive at a time.     *)
(* Feature vectors and face patches are points on a line, in hundredths:   *)
(* the distance of two of them is the absolute difference, so 60 stands    *)
(* for the distance 0.6 and a confidence of 55 for 0.55.                   *)
(***************************************************************************)
EXTENDS Integers, Sequences, FiniteSets, TLC

\* Longest training batch handed to train_from_database.
MaxBatch == 2

\* The longest training batch of rows of any labelId.
MaxAnyLabelBatch == 1

\* tolerance=0.6 of compare_faces, in hundredths.
Tolerance == 60

\* The confidence floor 0.5 of the acceptance test, in hundredths.
ConfidenceFloor == 50

\* The scale of the classifier's raw score: (100 - confidence) / 100.0.
ScoreScale == 100

\* labelId of a result that names nobody.
Unknown == -1

-----------------------------------------------------------------------------
(* The inputs: the students of the enrollment database and the images.     *)

\* The rows train_from_database may be handed (keys id, name, department,
\* imagePath, labelId).
Students ==
  << [id |-> "s1", name |-> "Alice", department |-> "CS", imagePath |-> "a",       labelId |-> 1],
     [id |-> "s2", name |-> "Bob",   department |-> "EE", imagePath |-> "ba",      labelId |-> 2],
     [id |-> "s3", name |-> "Carol", department |-> "CS", imagePath |-> "missing", labelId |-> 1],
     [id |-> "s4", name |-> "Dan",   department |-> "ME", imagePath |-> "blank",   labelId |-> 2],
     [id |-> "s5", name |-> "Eve",   department |-> "EE", imagePath |-> "bad",     labelId |-> 1],
     [id |-> "s6", name |-> "Finn",  department |-> "ME", imagePath |-> "mid",     labelId |-> -1] >>

StudentIds == 1..Len(Students)

\* The sequences of at most n distinct elements of S.
RECURSIVE SeqsUpTo(_, _)
SeqsUpTo(S, n) ==
  IF n = 0 THEN {<<>>}
  ELSE LET shorter == SeqsUpTo(S, n - 1)
       IN  shorter \cup {Append(s, x) : s \in {t \in shorter : Len(t) = n - 1}, x \in S}

NoRepeat(s) == \A i, j \in 1..Len(s) : s[i] = s[j] => i = j

\* The rows whose labelId is not the value the results use for "unknown".
IssuedIds == {i \in StudentIds : Students[i].labelId # Unknown}

\* The training batches: rows of the database in any order, each student at
\* most once, as a query of the enrollment table lists them.
Batches == {b \in SeqsUpTo(IssuedIds, MaxBatch) : NoRepeat(b)}

\* The batches of any rows: student.get('labelId') is taken as it comes.
AnyLabelBatches == {b \in SeqsUpTo(StudentIds, MaxAnyLabelBatch) : NoRepeat(b)}

\* The image files a path may name.  "missing" names no file, "bad" is a file
\* no decoder reads, "blank" shows no face.
Images == {"missing", "bad", "blank", "a", "ba", "mid", "c", "d", "far"}

\* os.path.exists(image_path)
path_exists(img) == img # "missing"

\* Whether the file decodes (cv2.imread returns an image,
\* face_recognition.load_image_file does not raise).
Readable(img) == img \notin {"missing", "bad"}

\* The faces of an image in detection order: enc is the feature vector (and
\* the grey patch) of the face, size the area w * h of its region.
ImageFaces(img) ==
  CASE img = "a"   -> << [enc |-> 0,   size |-> 2] >>
    [] img = "ba"  -> << [enc |-> 44,  size |-> 1], [enc |-> 0, size |-> 2] >>
    [] img = "mid" -> << [enc |-> 22,  size |-> 2] >>
    [] img = "c"   -> << [enc |-> 50,  size |-> 2] >>
    [] img = "d"   -> << [enc |-> 60,  size |-> 2] >>
    [] img = "far" -> << [enc |-> 130, size |-> 2] >>
    [] OTHER       -> << >>

\* The ways a save may be cut short: no fault, or the first or the second
\* file write of the save fails after the file was opened for writing.
WriteFaults == {"none", "first", "second"}

\* What a process finds installed: FACE_RECOGNITION_AVAILABLE, the cv2.face
\* module, and a Haar cascade file on one of the searched paths.
Environments ==
  { [fr |-> TRUE,  face |-> TRUE,  cascade |-> TRUE],
    [fr |-> FALSE, face |-> TRUE,  cascade |-> TRUE],
    [fr |-> FALSE, face |-> TRUE,  cascade |-> FALSE],
    [fr |-> FALSE, face |-> FALSE, cascade |-> TRUE] }

-----------------------------------------------------------------------------
(* Values                                                                   *)

Abs(x) == IF x < 0 THEN -x ELSE x

\* The empty dict {}.
EmptyMap == [l \in {} |-> [id |-> "", name |-> "", department |-> ""]]

\* d[k] = v on a dict.
Upsert(d, k, v) == [l \in DOMAIN d \cup {k} |-> IF l = k THEN v ELSE d[l]]

\* The dict {'id': ..., 'name': ..., 'department': ...} of a row.
IdentityOf(s) == [id |-> s.id, name |-> s.name, department |-> s.department]

\* A file that does not exist, and one cut short by a failed write.
AbsentFile  == [st |-> "absent",  fmt |-> "none", data |-> <<>>, labels |-> <<>>, student_data |-> EmptyMap]
CorruptFile == [st |-> "corrupt", fmt |-> "none", data |-> <<>>, labels |-> <<>>, student_data |-> EmptyMap]

\* pickle.dump(self.known_encodings, f)
EncodingsPickle(encs) ==
  [st |-> "ok", fmt |-> "encodings", data |-> encs, labels |-> <<>>, student_data |-> EmptyMap]

\* The labels file written as the classifier backend writes it: the bare
\* mapping, without the labels.
LabelsPickle_BareMapping(labels, sd) ==
  [st |-> "ok", fmt |-> "cv", data |-> <<>>, labels |-> <<>>, student_data |-> sd]

\* pickle.dump({'labels': ..., 'student_data': ...}, f)
LabelsPickle(labels, sd) ==
  [st |-> "ok", fmt |-> "fr", data |-> <<>>, labels |-> labels, student_data |-> sd]

\* pickle.dump(label_to_student, f): the bare labelId -> student dict.
MappingPickle(sd) ==
  [st |-> "ok", fmt |-> "cv", data |-> <<>>, labels |-> <<>>, student_data |-> sd]

\* recognizer.save(path): the trained histograms with their labels.
ModelFile(hists) ==
  [st |-> "ok", fmt |-> "lbph", data |-> hists, labels |-> <<>>, student_data |-> EmptyMap]

\* self.recognizer = None, and a trained (or read) LBPH recognizer.
NoRecognizer == [set |-> FALSE, hists |-> <<>>]
Recognizer(hists) == [set |-> TRUE, hists |-> hists]

\* The result of a call: the dict printed as JSON.  key names the list it
\* carries ("results", "faces" or "none"), trained_count is -1 when absent.
Result(success, message, key, items, count) ==
  [success |-> success, message |-> message, key |-> key, items |-> items,
   trained_count |-> count]

Failure(message) == Result(FALSE, message, "none", <<>>, -1)

\* One entry of a result list.
MatchResult(labelId, name, department, confidence, location) ==
  [labelId |-> labelId, name |-> name, department |-> department,
   confidence |-> confidence, location |-> location]

-----------------------------------------------------------------------------
VARIABLES
  encodings_file,   \* face_encodings.pkl
  labels_file,      \* labels.pkl
  model_file,       \* face_recognizer.pkl
  cls,              \* the class of the live object: "none", "service", "realtime"
  env,              \* what the live process found installed
  known_encodings,  \* self.known_encodings
  known_labels,     \* self.known_labels
  student_data,     \* self.student_data
  recognizer,       \* self.recognizer
  fresh,            \* no method was called on the object since its construction
  saved,            \* the gallery in memory at the last completed save
  last,             \* the last call and what it delivered
  saver,            \* a training run taken one file operation at a time
  loader            \* a second process inside RealTimeRecognition.load_model

vars == << encodings_file, labels_file, model_file, cls, env, known_encodings,
           known_labels, student_data, recognizer, fresh, saved, last, saver, loader >>

\* The two processes of the runs that interleave file operations.
concurrent == << saver, loader >>

store == << encodings_file, labels_file, model_file >>

NoSave == [valid |-> FALSE, encodings |-> <<>>, labels |-> <<>>, student_data |-> EmptyMap]

\* A row whose image exists, decodes and shows a face.
Enrollable(i) ==
  /\ path_exists(Students[i].imagePath)
  /\ Readable(Students[i].imagePath)
  /\ Len(ImageFaces(Students[i].imagePath)) > 0

\* The record of a call: the operation, its inputs (of a batch its enrollable
\* rows, in order, and whether it has other rows), the path it took ("fr",
\* "cv" or "none"), the number of faces detection returned (-1 when it did
\* not run), whether a result object reached the caller, and the result.
Call(op, c, batch, image, wfault, path, detected, delivered, result) ==
  [op |-> op, cls |-> c, fresh |-> fresh,
   skipped |-> Len(SelectSeq(batch, Enrollable)) < Len(batch),
   enrollable |-> SelectSeq(batch, Enrollable), image |-> image,
   wfault |-> wfault, path |-> path, detected |-> detected,
   delivered |-> delivered, result |-> result]

\* No run in steps is under way, and none was.
IdleSaver ==
  [pc |-> "idle", path |-> "none",
   g |-> [encodings |-> <<>>, labels |-> <<>>, student_data |-> EmptyMap, count |-> 0],
   runs |-> {}, n |-> 0]

\* The fields of a RealTimeRecognition object as __init__ sets them, before
\* load_model.
IdleLoader ==
  [pc |-> "idle", ke |-> <<>>, kl |-> <<>>, sd |-> EmptyMap, rec |-> NoRecognizer]

NoCall ==
  [op |-> "none", cls |-> "none", fresh |-> FALSE, skipped |-> FALSE, enrollable |-> <<>>,
   image |-> "missing", wfault |-> "none", path |-> "none", detected |-> -1,
   delivered |-> TRUE, result |-> Failure("")]

Init ==
  /\ encodings_file = AbsentFile
  /\ labels_file = AbsentFile
  /\ model_file = AbsentFile
  /\ cls = "none"
  /\ env = [fr |-> FALSE, face |-> FALSE, cascade |-> TRUE]
  /\ known_encodings = <<>>
  /\ known_labels = <<>>
  /\ student_data = EmptyMap
  /\ recognizer = NoRecognizer
  /\ fresh = FALSE
  /\ saved = NoSave
  /\ last = NoCall
  /\ saver = IdleSaver
  /\ loader = IdleLoader

-----------------------------------------------------------------------------
(* Persistence: FaceRecognitionService._save_model / _load_model           *)

\* open(path, 'wb') followed by a dump that fails leaves a truncated file.
WriteFile(content, fails) == IF fails THEN CorruptFile ELSE content

\* _save_model: the encodings file, then the labels file.  Any exception is
\* printed to stderr and swallowed; a failed first write skips the second.
save_model(encs, labels, sd, wfault) ==
  [ef |-> WriteFile(EncodingsPickle(encs), wfault = "first"),
   lf |-> IF wfault = "first" THEN labels_file
          ELSE WriteFile(LabelsPickle(labels, sd), wfault = "second")]

\* data.get('labels', []) on the unpickled labels file: the bare mapping the
\* classifier backend writes has no key 'labels'.
GetLabels(file) == IF file.fmt = "fr" THEN file.labels ELSE <<>>

\* data.get('student_data', {}) on the unpickled labels file.
GetStudentData(file) == IF file.fmt = "fr" THEN file.student_data ELSE EmptyMap

\* self.student_data = pickle.load(f) in the classifier branch of load_model:
\* the whole unpickled object.  The embedding backend's object has the string
\* keys 'labels' and 'student_data' only, so no labelId is a key of it.
WholeMapping(file) == IF file.fmt = "cv" THEN file.student_data ELSE EmptyMap

-----------------------------------------------------------------------------
(* Training: FaceRecognitionService.train_from_database                    *)

\* face_recognition.face_encodings(image): one vector per face, in detection
\* order.
face_encodings(img) == [i \in 1..Len(ImageFaces(img)) |-> ImageFaces(img)[i].enc]

\* The empty accumulator of a training loop.
EmptyGallery == [encodings |-> <<>>, labels |-> <<>>, student_data |-> EmptyMap, count |-> 0]

\* The loop body with the count taken before the faces are looked at.
EnrollFaceRecognition_CountsFaceless(g, s) ==
  IF ~path_exists(s.imagePath) THEN g
  ELSE IF ~Readable(s.imagePath) THEN g
  ELSE LET encodings == face_encodings(s.imagePath)
       IN  IF Len(encodings) > 0
           THEN [encodings    |-> Append(g.encodings, encodings[1]),
                 labels       |-> Append(g.labels, s.labelId),
                 student_data |-> Upsert(g.student_data, s.labelId, IdentityOf(s)),
                 count        |-> g.count + 1]
           ELSE [g EXCEPT !.count = g.count + 1]

\* One pass of the loop of _train_with_face_recognition over a row: a missing
\* file and a decoding error skip the row, the first face found is enrolled.
EnrollFaceRecognition(g, s) ==
  IF ~path_exists(s.imagePath) THEN g
  ELSE IF ~Readable(s.imagePath) THEN g
  ELSE LET encodings == face_encodings(s.imagePath)
       IN  IF Len(encodings) > 0
           THEN [encodings    |-> Append(g.encodings, encodings[1]),
                 labels       |-> Append(g.labels, s.labelId),
                 student_data |-> Upsert(g.student_data, s.labelId, IdentityOf(s)),
                 count        |-> g.count + 1]
           ELSE g

RECURSIVE LoopFaceRecognition(_, _)
LoopFaceRecognition(g, batch) ==
  IF batch = <<>> THEN g
  ELSE LoopFaceRecognition(EnrollFaceRecognition(g, Students[Head(batch)]), Tail(batch))

\* max(faces, key=lambda x: x[2] * x[3]): the first face of the largest area.
LargestFace(faces) ==
  LET big == CHOOSE i \in 1..Len(faces) :
               /\ \A j \in 1..Len(faces) : faces[j].size <= faces[i].size
               /\ \A j \in 1..(i - 1) : faces[j].size < faces[i].size
  IN  faces[big]

\* One pass of the loop of _train_with_opencv over a row.  Without a cascade
\* detectMultiScale raises, and the row is skipped like any other error.
EnrollOpenCV(g, s) ==
  IF ~path_exists(s.imagePath) THEN g
  ELSE IF ~Readable(s.imagePath) THEN g
  ELSE IF ~env.cascade THEN g
  ELSE LET faces == ImageFaces(s.imagePath)
       IN  IF Len(faces) > 0
           THEN [encodings    |-> Append(g.encodings, LargestFace(faces).enc),
                 labels       |-> Append(g.labels, s.labelId),
                 student_data |-> Upsert(g.student_data, s.labelId, IdentityOf(s)),
                 count        |-> g.count + 1]
           ELSE g

RECURSIVE LoopOpenCV(_, _)
LoopOpenCV(g, batch) ==
  IF batch = <<>> THEN g
  ELSE LoopOpenCV(EnrollOpenCV(g, Students[Head(batch)]), Tail(batch))

\* recognizer.train(images, np.array(labels)): one histogram per patch.
TrainedHistograms(g) ==
  [i \in 1..Len(g.encodings) |-> [patch |-> g.encodings[i], label |-> g.labels[i]]]

\* What a call leaves behind: the three files, the four fields, the result,
\* the path taken and the number of faces detection returned.
Outcome(ef, lf, mf, ke, kl, sd, rec, result, path, detected) ==
  [ef |-> ef, lf |-> lf, mf |-> mf, ke |-> ke, kl |-> kl, sd |-> sd, rec |-> rec,
   result |-> result, path |-> path, detected |-> detected]

\* The method with the save placed before the test of the count.
train_with_face_recognition_SavesFirst(batch, wfault) ==
  LET g == LoopFaceRecognition(EmptyGallery, batch)
      w == save_model(g.encodings, g.labels, g.student_data, wfault)
  IN  IF g.count = 0
      THEN Outcome(w.ef, w.lf, model_file, g.encodings, g.labels, g.student_data,
                   recognizer, Failure("No faces found in training images"), "fr", -1)
      ELSE Outcome(w.ef, w.lf, model_file, g.encodings, g.labels, g.student_data,
                   recognizer,
                   Result(TRUE, "Trained faces successfully", "none", <<>>, g.count),
                   "fr", -1)

\* _train_with_face_recognition, entered with the three fields just reset.
train_with_face_recognition(batch, wfault) ==
  LET g == LoopFaceRecognition(EmptyGallery, batch)
  IN  IF g.count = 0
      THEN Outcome(encodings_file, labels_file, model_file, g.encodings, g.labels,
                   g.student_data, recognizer,
                   Failure("No faces found in training images"), "fr", -1)
      ELSE LET w == save_model(g.encodings, g.labels, g.student_data, wfault)
           IN  Outcome(w.ef, w.lf, model_file, g.encodings, g.labels, g.student_data,
                       recognizer,
                       Result(TRUE, "Trained faces successfully", "none", <<>>, g.count),
                       "fr", -1)

\* _train_with_opencv, entered with the three fields just reset: the fields
\* are assigned only between the model's save and the labels' dump.
train_with_opencv(batch, wfault) ==
  IF ~env.face
  THEN Outcome(encodings_file, labels_file, model_file, <<>>, <<>>, EmptyMap, recognizer,
               Failure("OpenCV face module not available"), "cv", -1)
  ELSE
    LET g == LoopOpenCV(EmptyGallery, batch)
    IN  IF Len(g.encodings) = 0
        THEN Outcome(encodings_file, labels_file, model_file, <<>>, <<>>, EmptyMap,
                     recognizer, Failure("No faces found in training images"), "cv", -1)
        ELSE IF wfault = "first"
        THEN Outcome(encodings_file, labels_file, CorruptFile, <<>>, <<>>, EmptyMap,
                     recognizer, Failure("OpenCV training error"), "cv", -1)
        ELSE IF wfault = "second"
        THEN Outcome(encodings_file, CorruptFile, ModelFile(TrainedHistograms(g)),
                     <<>>, <<>>, g.student_data, Recognizer(TrainedHistograms(g)),
                     Failure("OpenCV training error"), "cv", -1)
        ELSE Outcome(encodings_file, MappingPickle(g.student_data),
                     ModelFile(TrainedHistograms(g)),
                     <<>>, <<>>, g.student_data, Recognizer(TrainedHistograms(g)),
                     Result(TRUE, "Trained faces successfully", "none", <<>>,
                            Len(g.encodings)),
                     "cv", -1)

\* "not available" in error_msg.lower() or "cannot import" in error_msg.lower()
MentionsUnavailable(message) == message = "OpenCV face module not available"

\* train_from_database: reset the three fields, pick the backend, and for the
\* fallback rewrite the message of an unavailable backend.
train_from_database(batch, wfault) ==
  IF env.fr
  THEN train_with_face_recognition(batch, wfault)
  ELSE LET r == train_with_opencv(batch, wfault)
       IN  IF ~r.result.success /\ MentionsUnavailable(r.result.message)
           THEN [r EXCEPT !.result =
                   Failure("Python face recognition libraries not installed")]
           ELSE r

-----------------------------------------------------------------------------
(* Matching                                                                 *)

\* face_recognition.face_distance(known, q): the distance to every enrolled
\* vector, in order.
face_distance(known, q) == [i \in 1..Len(known) |-> Abs(known[i] - q)]

\* face_recognition.compare_faces(known, q, tolerance):
\* list(face_distance(known, q) <= tolerance).
compare_faces(known, q, tolerance) ==
  [i \in 1..Len(known) |-> face_distance(known, q)[i] <= tolerance]

\* np.argmin: the first index of the least element.
argmin(ds) ==
  CHOOSE i \in 1..Len(ds) :
    /\ \A j \in 1..Len(ds) : ds[i] <= ds[j]
    /\ \A j \in 1..(i - 1) : ds[j] > ds[i]

\* The acceptance test without the confidence floor.
Accepts_NoFloor(matched, confidence) == matched

\* The acceptance test `matches[best_match_index] and confidence > 0.5`.
Accepts(matched, confidence) == matched /\ confidence > ConfidenceFloor

\* What matching one face gives: an entry, or an exception (err).
Matched(m) == [err |-> FALSE, match |-> m]
Raised == [err |-> TRUE, match |-> MatchResult(Unknown, "", "", 0, 0)]

UnknownMatch(confidence, location) ==
  Matched(MatchResult(Unknown, "Unknown", "", confidence, location))

\* The loop body of FaceRecognitionService._recognize_with_face_recognition
\* for the face at `location`: known_labels[best] raises IndexError when the
\* labels are shorter than the encodings; a label without a student record is
\* reported as Unknown.
match_face_service(q, location) ==
  LET matches    == compare_faces(known_encodings, q, Tolerance)
      distances  == face_distance(known_encodings, q)
      best       == argmin(distances)
      confidence == 100 - distances[best]
  IN  IF Accepts(matches[best], confidence)
      THEN IF best > Len(known_labels) THEN Raised
           ELSE LET label_id == known_labels[best]
                IN  IF label_id \in DOMAIN student_data
                    THEN Matched(MatchResult(label_id, student_data[label_id].name,
                                             student_data[label_id].department,
                                             confidence, location))
                    ELSE UnknownMatch(confidence, location)
      ELSE UnknownMatch(confidence, location)

\* The loop body of RealTimeRecognition._recognize_with_face_recognition: an
\* accepted label is reported even without a student record.
match_face_realtime(q, location) ==
  LET matches    == compare_faces(known_encodings, q, Tolerance)
      distances  == face_distance(known_encodings, q)
      best       == argmin(distances)
      confidence == 100 - distances[best]
  IN  IF Accepts(matches[best], confidence)
      THEN IF best > Len(known_labels) THEN Raised
           ELSE LET label_id == known_labels[best]
                IN  IF label_id \in DOMAIN student_data
                    THEN Matched(MatchResult(label_id, student_data[label_id].name,
                                             student_data[label_id].department,
                                             confidence, location))
                    ELSE Matched(MatchResult(label_id, "Unknown", "", confidence, location))
      ELSE UnknownMatch(confidence, location)

\* recognizer.predict(face_roi): the label of the nearest trained histogram
\* (the first of the nearest) and its distance as the raw score.
predict(hists, patch) ==
  LET ds   == [i \in 1..Len(hists) |-> Abs(hists[i].patch - patch)]
      best == argmin(ds)
  IN  [label |-> hists[best].label, confidence |-> ds[best]]

\* (100 - confidence) / 100.0, in hundredths.
confidence_score(raw) == ScoreScale - raw

\* The loop body of both _recognize_with_opencv methods.
match_face_opencv(patch, location) ==
  LET p     == predict(recognizer.hists, patch)
      score == confidence_score(p.confidence)
  IN  IF score > ConfidenceFloor /\ p.label \in DOMAIN student_data
      THEN Matched(MatchResult(p.label, student_data[p.label].name,
                               student_data[p.label].department, score, location))
      ELSE UnknownMatch(score, location)

\* What a recognition call gives: the result, the path and the face count.
Recognition(result, path, detected) ==
  [result |-> result, path |-> path, detected |-> detected]

\* FaceRecognitionService._recognize_with_face_recognition
service_recognize_with_face_recognition(img) ==
  IF ~Readable(img) THEN Recognition(Failure("Recognition error"), "fr", -1)
  ELSE LET faces == ImageFaces(img)
           ms    == [i \in 1..Len(faces) |-> match_face_service(faces[i].enc, i)]
       IN  IF Len(faces) = 0
           THEN Recognition(Failure("No face detected"), "fr", 0)
           ELSE IF \E i \in 1..Len(faces) : ms[i].err
           THEN Recognition(Failure("Recognition error"), "fr", Len(faces))
           ELSE Recognition(Result(TRUE, "", "results",
                                   [i \in 1..Len(faces) |-> ms[i].match], -1),
                            "fr", Len(faces))

\* FaceRecognitionService._recognize_with_opencv: without a cascade
\* detectMultiScale raises.
service_recognize_with_opencv(img) ==
  IF ~Readable(img) THEN Recognition(Failure("Could not load image"), "cv", -1)
  ELSE IF ~env.cascade THEN Recognition(Failure("Recognition error"), "cv", -1)
  ELSE LET faces == ImageFaces(img)
           ms    == [i \in 1..Len(faces) |-> match_face_opencv(faces[i].enc, i)]
       IN  IF Len(faces) = 0
           THEN Recognition(Failure("No face detected"), "cv", 0)
           ELSE Recognition(Result(TRUE, "", "results",
                                   [i \in 1..Len(faces) |-> ms[i].match], -1),
                            "cv", Len(faces))

\* FaceRecognitionService.recognize_face
recognize_face(img) ==
  IF ~path_exists(img) THEN Recognition(Failure("Image file not found"), "none", -1)
  ELSE IF env.fr /\ known_encodings # <<>> THEN service_recognize_with_face_recognition(img)
  ELSE IF recognizer.set THEN service_recognize_with_opencv(img)
  ELSE Recognition(Failure("Model not trained"), "none", -1)

\* The streaming method answering a faceless frame as recognize_face does.
realtime_recognize_with_face_recognition_NoFaceFails(img) ==
  IF ~Readable(img) THEN Recognition(Failure("exception text"), "fr", -1)
  ELSE LET faces == ImageFaces(img)
           ms    == [i \in 1..Len(faces) |-> match_face_realtime(faces[i].enc, i)]
       IN  IF Len(faces) = 0
           THEN Recognition(Failure("No face detected"), "fr", 0)
           ELSE IF \E i \in 1..Len(faces) : ms[i].err
           THEN Recognition(Failure("exception text"), "fr", Len(faces))
           ELSE Recognition(Result(TRUE, "", "faces",
                                   [i \in 1..Len(faces) |-> ms[i].match], -1),
                            "fr", Len(faces))

\* RealTimeRecognition._recognize_with_face_recognition
realtime_recognize_with_face_recognition(img) ==
  IF ~Readable(img) THEN Recognition(Failure("exception text"), "fr", -1)
  ELSE LET faces == ImageFaces(img)
           ms    == [i \in 1..Len(faces) |-> match_face_realtime(faces[i].enc, i)]
       IN  IF Len(faces) = 0
           THEN Recognition(Result(TRUE, "", "faces", <<>>, -1), "fr", 0)
           ELSE IF \E i \in 1..Len(faces) : ms[i].err
           THEN Recognition(Failure("exception text"), "fr", Len(faces))
           ELSE Recognition(Result(TRUE, "", "faces",
                                   [i \in 1..Len(faces) |-> ms[i].match], -1),
                            "fr", Len(faces))

\* RealTimeRecognition._recognize_with_opencv
realtime_recognize_with_opencv(img) ==
  IF ~Readable(img) THEN Recognition(Failure("Could not load image"), "cv", -1)
  ELSE IF ~env.cascade THEN Recognition(Failure("Cascade not found"), "cv", -1)
  ELSE LET faces == ImageFaces(img)
           ms    == [i \in 1..Len(faces) |-> match_face_opencv(faces[i].enc, i)]
       IN  IF Len(faces) = 0
           THEN Recognition(Result(TRUE, "", "faces", <<>>, -1), "cv", 0)
           ELSE Recognition(Result(TRUE, "", "faces",
                                   [i \in 1..Len(faces) |-> ms[i].match], -1),
                            "cv", Len(faces))

\* RealTimeRecognition.recognize_frame
recognize_frame(img) ==
  IF ~path_exists(img) THEN Recognition(Failure("Frame not found"), "none", -1)
  ELSE IF env.fr /\ known_encodings # <<>> THEN realtime_recognize_with_face_recognition(img)
  ELSE IF recognizer.set THEN realtime_recognize_with_opencv(img)
  ELSE Recognition(Failure("Model not loaded"), "none", -1)

-----------------------------------------------------------------------------
(* Loading                                                                  *)

\* What a load leaves in the four fields; done tells whether it returned
\* (True/False for _load_model) and raised whether an exception left it.
Loaded(ke, kl, sd, rec, done, raised) ==
  [ke |-> ke, kl |-> kl, sd |-> sd, rec |-> rec, done |-> done, raised |-> raised]

\* FaceRecognitionService._load_model: an exception is caught and False is
\* returned, with the fields assigned before it kept.
load_model_service ==
  IF encodings_file.st # "absent" /\ labels_file.st # "absent"
  THEN IF encodings_file.st = "corrupt"
       THEN Loaded(known_encodings, known_labels, student_data, recognizer, FALSE, FALSE)
       ELSE IF labels_file.st = "corrupt"
       THEN Loaded(encodings_file.data, known_labels, student_data, recognizer, FALSE, FALSE)
       ELSE Loaded(encodings_file.data, GetLabels(labels_file), GetStudentData(labels_file),
                   recognizer, TRUE, FALSE)
  ELSE Loaded(known_encodings, known_labels, student_data, recognizer, FALSE, FALSE)

\* load_model falling back to the classifier's files when the embedding
\* files are not there.
load_model_realtime_FallsBack(e) ==
  IF e.fr /\ encodings_file.st # "absent" /\ labels_file.st # "absent"
  THEN IF encodings_file.st = "corrupt" \/ labels_file.st = "corrupt"
       THEN Loaded(<<>>, <<>>, EmptyMap, NoRecognizer, FALSE, TRUE)
       ELSE Loaded(encodings_file.data, GetLabels(labels_file),
                   GetStudentData(labels_file), NoRecognizer, TRUE, FALSE)
  ELSE IF model_file.st # "absent" /\ labels_file.st # "absent"
       THEN IF ~e.face
            THEN Loaded(<<>>, <<>>, EmptyMap, NoRecognizer, TRUE, FALSE)
            ELSE IF model_file.st = "corrupt" \/ labels_file.st = "corrupt"
            THEN Loaded(<<>>, <<>>, EmptyMap, NoRecognizer, FALSE, TRUE)
            ELSE Loaded(<<>>, <<>>, WholeMapping(labels_file), Recognizer(model_file.data),
                        TRUE, FALSE)
       ELSE Loaded(<<>>, <<>>, EmptyMap, NoRecognizer, TRUE, FALSE)

\* RealTimeRecognition.load_model, called by the constructor on empty fields:
\* nothing catches what pickle.load or recognizer.read raise.
load_model_realtime(e) ==
  IF e.fr
  THEN IF encodings_file.st # "absent" /\ labels_file.st # "absent"
       THEN IF encodings_file.st = "corrupt" \/ labels_file.st = "corrupt"
            THEN Loaded(<<>>, <<>>, EmptyMap, NoRecognizer, FALSE, TRUE)
            ELSE Loaded(encodings_file.data, GetLabels(labels_file),
                        GetStudentData(labels_file), NoRecognizer, TRUE, FALSE)
       ELSE Loaded(<<>>, <<>>, EmptyMap, NoRecognizer, TRUE, FALSE)
  ELSE IF model_file.st # "absent" /\ labels_file.st # "absent"
       THEN IF ~e.face
            THEN Loaded(<<>>, <<>>, EmptyMap, NoRecognizer, TRUE, FALSE)
            ELSE IF model_file.st = "corrupt" \/ labels_file.st = "corrupt"
            THEN Loaded(<<>>, <<>>, EmptyMap, NoRecognizer, FALSE, TRUE)
            ELSE Loaded(<<>>, <<>>, WholeMapping(labels_file), Recognizer(model_file.data),
                        TRUE, FALSE)
       ELSE Loaded(<<>>, <<>>, EmptyMap, NoRecognizer, TRUE, FALSE)

-----------------------------------------------------------------------------
(* Actions                                                                  *)

\* service = FaceRecognitionService() in a new process: the constructor
\* reads no file.
NewService(e) ==
  /\ cls' = "service"
  /\ env' = e
  /\ known_encodings' = <<>>
  /\ known_labels' = <<>>
  /\ student_data' = EmptyMap
  /\ recognizer' = NoRecognizer
  /\ fresh' = TRUE
  /\ last' = Call("new", "service", <<>>, "missing", "none", "none", -1, TRUE, Failure(""))
  /\ UNCHANGED << store, saved, concurrent >>

\* recognizer = RealTimeRecognition() in a new process, as main does: the
\* constructor calls load_model, and an exception of it ends the process
\* before anything is printed.
NewRealTime(e) ==
  \E l \in {load_model_realtime(e)} :
      /\ cls' = IF l.raised THEN "none" ELSE "realtime"
      /\ env' = e
      /\ known_encodings' = l.ke
      /\ known_labels' = l.kl
      /\ student_data' = l.sd
      /\ recognizer' = l.rec
      /\ fresh' = ~l.raised
      /\ last' = Call("load", "realtime", <<>>, "missing", "none", IF e.fr THEN "fr" ELSE "cv", -1,
                      ~l.raised, Result(l.done, "", "none", <<>>, -1))
      /\ UNCHANGED << store, saved, concurrent >>

\* service.train_from_database(students_data)
Train(batch, wfault) ==
  /\ cls = "service"
  /\ \E r \in {train_from_database(batch, wfault)} :
         /\ encodings_file' = r.ef
         /\ labels_file' = r.lf
         /\ model_file' = r.mf
         /\ known_encodings' = r.ke
         /\ known_labels' = r.kl
         /\ student_data' = r.sd
         /\ recognizer' = r.rec
         /\ saved' = IF r.path = "fr" /\ r.result.success /\ wfault = "none"
                     THEN [valid |-> TRUE, encodings |-> r.ke, labels |-> r.kl,
                           student_data |-> r.sd]
                     ELSE IF << r.ef, r.lf >> # << encodings_file, labels_file >> THEN NoSave
                     ELSE saved
         /\ last' = Call("train", cls, batch, "missing", wfault, r.path, -1, TRUE, r.result)
  /\ fresh' = FALSE
  /\ UNCHANGED << cls, env, concurrent >>

\* service.recognize_face(image_path).  The call assigns no field and writes
\* no file: whatever may follow it on the same object may follow the state
\* before it, and the process is left to end here, as main does.
Recognize(img) ==
  /\ cls = "service"
  /\ \E r \in {recognize_face(img)} :
       last' = Call("recognize", cls, <<>>, img, "none", r.path, r.detected, TRUE, r.result)
  /\ cls' = "none"
  /\ fresh' = FALSE
  /\ UNCHANGED << store, saved, env, known_encodings, known_labels, student_data,
                  recognizer, concurrent >>

\* service._load_model()
LoadModel ==
  /\ cls = "service"
  /\ \E l \in {load_model_service} :
         /\ known_encodings' = l.ke
         /\ known_labels' = l.kl
         /\ student_data' = l.sd
         /\ recognizer' = l.rec
         /\ last' = Call("load", cls, <<>>, "missing", "none", "fr", -1, TRUE,
                         Result(l.done, "", "none", <<>>, -1))
  /\ fresh' = FALSE
  /\ UNCHANGED << store, saved, cls, env, concurrent >>

\* recognizer.recognize_frame(frame_path) and the end of the process, as in
\* main: the call assigns no field and writes no file.
RecognizeFrame(img) ==
  /\ cls = "realtime"
  /\ \E r \in {recognize_frame(img)} :
       last' = Call("recognize", cls, <<>>, img, "none", r.path, r.detected, TRUE, r.result)
  /\ cls' = "none"
  /\ fresh' = FALSE
  /\ UNCHANGED << store, saved, env, known_encodings, known_labels, student_data,
                  recognizer, concurrent >>

Next ==
  \/ \E e \in Environments : NewService(e)
  \/ \E e \in Environments : NewRealTime(e)
  \/ \E batch \in Batches, wfault \in WriteFaults : Train(batch, wfault)
  \/ \E img \in Images : Recognize(img)
  \/ LoadModel
  \/ \E img \in Images : RecognizeFrame(img)

Spec == Init /\ [][Next]_vars

\* The same program handed rows of any labelId.
NextAnyLabel ==
  \/ \E e \in Environments : NewService(e)
  \/ \E e \in Environments : NewRealTime(e)
  \/ \E batch \in AnyLabelBatches, wfault \in WriteFaults : Train(batch, wfault)
  \/ \E img \in Images : Recognize(img)
  \/ LoadModel
  \/ \E img \in Images : RecognizeFrame(img)

SpecAnyLabel == Init /\ [][NextAnyLabel]_vars

-----------------------------------------------------------------------------
(* A training run and a load of another process, interleaved at the file   *)
(* operations.  The service's own fields are the trainer's; the loader's   *)
(* fields are in `loader`.                                                 *)

\* The training runs of one service that are followed step by step.
MaxRuns == 2

\* What a run builds: the path and the accumulator of its loop.
Run(path, g) == [path |-> path, g |-> g]

\* A service on a machine with both processes' installation; the store is
\* empty.
InitConcurrent ==
  /\ encodings_file = AbsentFile
  /\ labels_file = AbsentFile
  /\ model_file = AbsentFile
  /\ cls = "service"
  /\ env \in Environments
  /\ known_encodings = <<>>
  /\ known_labels = <<>>
  /\ student_data = EmptyMap
  /\ recognizer = NoRecognizer
  /\ fresh = TRUE
  /\ saved = NoSave
  /\ last = NoCall
  /\ saver = IdleSaver
  /\ loader = IdleLoader

\* train_from_database up to the first write: the reset of the fields and
\* the loop of the backend.  A run that enrolls nothing returns here.
BeginTrain(batch) ==
  /\ saver.pc = "idle"
  /\ saver.n < MaxRuns
  /\ IF env.fr
     THEN \E g \in {LoopFaceRecognition(EmptyGallery, batch)} :
            /\ known_encodings' = g.encodings
            /\ known_labels' = g.labels
            /\ student_data' = g.student_data
            /\ saver' = IF g.count = 0
                         THEN [saver EXCEPT !.n = @ + 1]
                         ELSE [saver EXCEPT !.pc = "open_encodings", !.path = "fr",
                                            !.g = g, !.n = @ + 1,
                                            !.runs = @ \cup {Run("fr", g)}]
     ELSE \E g \in {IF env.face THEN LoopOpenCV(EmptyGallery, batch) ELSE EmptyGallery} :
            /\ known_encodings' = <<>>
            /\ known_labels' = <<>>
            /\ student_data' = EmptyMap
            /\ saver' = IF Len(g.encodings) = 0
                         THEN [saver EXCEPT !.n = @ + 1]
                         ELSE [saver EXCEPT !.pc = "save_recognizer", !.path = "cv",
                                            !.g = g, !.n = @ + 1,
                                            !.runs = @ \cup {Run("cv", g)}]
  /\ UNCHANGED << store, cls, env, recognizer, fresh, saved, last, loader >>

\* open(self.encodings_path, 'wb'): the file is there and empty.
OpenEncodings ==
  /\ saver.pc = "open_encodings"
  /\ encodings_file' = CorruptFile
  /\ saver' = [saver EXCEPT !.pc = "dump_encodings"]
  /\ UNCHANGED << labels_file, model_file, cls, env, known_encodings, known_labels,
                  student_data, recognizer, fresh, saved, last, loader >>

\* pickle.dump(self.known_encodings, f) and the close of the file.
DumpEncodings ==
  /\ saver.pc = "dump_encodings"
  /\ encodings_file' = EncodingsPickle(known_encodings)
  /\ saver' = [saver EXCEPT !.pc = "open_labels"]
  /\ UNCHANGED << labels_file, model_file, cls, env, known_encodings, known_labels,
                  student_data, recognizer, fresh, saved, last, loader >>

\* recognizer.save(str(self.model_path)), taken as one step, and the two
\* assignments that follow it.
SaveRecognizer ==
  /\ saver.pc = "save_recognizer"
  /\ model_file' = ModelFile(TrainedHistograms(saver.g))
  /\ recognizer' = Recognizer(TrainedHistograms(saver.g))
  /\ student_data' = saver.g.student_data
  /\ saver' = [saver EXCEPT !.pc = "open_labels"]
  /\ UNCHANGED << encodings_file, labels_file, cls, env, known_encodings, known_labels,
                  fresh, saved, last, loader >>

\* open(self.labels_path, 'wb'), of either backend.
OpenLabels ==
  /\ saver.pc = "open_labels"
  /\ labels_file' = CorruptFile
  /\ saver' = [saver EXCEPT !.pc = "dump_labels"]
  /\ UNCHANGED << encodings_file, model_file, cls, env, known_encodings, known_labels,
                  student_data, recognizer, fresh, saved, last, loader >>

\* The dump into the labels file, the close, and the return of the run.
DumpLabels ==
  /\ saver.pc = "dump_labels"
  /\ labels_file' = IF saver.path = "fr" THEN LabelsPickle(known_labels, student_data)
                    ELSE MappingPickle(saver.g.student_data)
  /\ saver' = [saver EXCEPT !.pc = "idle"]
  /\ UNCHANGED << encodings_file, model_file, cls, env, known_encodings, known_labels,
                  student_data, recognizer, fresh, saved, last, loader >>

\* RealTimeRecognition() in another process of the same installation:
\* __init__ and load_model up to the two os.path.exists tests.
StartLoad ==
  /\ loader.pc \in {"idle", "done", "raised"}
  /\ loader' =
       [IdleLoader EXCEPT !.pc =
          IF env.fr
          THEN IF encodings_file.st # "absent" /\ labels_file.st # "absent"
               THEN "read_encodings" ELSE "done"
          ELSE IF model_file.st # "absent" /\ labels_file.st # "absent"
               THEN IF env.face THEN "read_model" ELSE "done"
               ELSE "done"]
  /\ UNCHANGED << store, cls, env, known_encodings, known_labels, student_data,
                  recognizer, fresh, saved, last, saver >>

\* self.known_encodings = pickle.load(f): an empty file raises EOFError.
ReadEncodings ==
  /\ loader.pc = "read_encodings"
  /\ loader' = IF encodings_file.st = "corrupt"
               THEN [loader EXCEPT !.pc = "raised"]
               ELSE [loader EXCEPT !.pc = "read_labels", !.ke = encodings_file.data]
  /\ UNCHANGED << store, cls, env, known_encodings, known_labels, student_data,
                  recognizer, fresh, saved, last, saver >>

\* data = pickle.load(f) of the labels file and the two data.get.
ReadLabels ==
  /\ loader.pc = "read_labels"
  /\ loader' = IF labels_file.st = "corrupt"
               THEN [loader EXCEPT !.pc = "raised"]
               ELSE [loader EXCEPT !.pc = "done", !.kl = GetLabels(labels_file),
                                   !.sd = GetStudentData(labels_file)]
  /\ UNCHANGED << store, cls, env, known_encodings, known_labels, student_data,
                  recognizer, fresh, saved, last, saver >>

\* self.recognizer.read(model_path)
ReadModel ==
  /\ loader.pc = "read_model"
  /\ loader' = IF model_file.st = "corrupt"
               THEN [loader EXCEPT !.pc = "raised"]
               ELSE [loader EXCEPT !.pc = "read_mapping",
                                   !.rec = Recognizer(model_file.data)]
  /\ UNCHANGED << store, cls, env, known_encodings, known_labels, student_data,
                  recognizer, fresh, saved, last, saver >>

\* self.student_data = pickle.load(f) in the classifier branch.
ReadMapping ==
  /\ loader.pc = "read_mapping"
  /\ loader' = IF labels_file.st = "corrupt"
               THEN [loader EXCEPT !.pc = "raised"]
               ELSE [loader EXCEPT !.pc = "done", !.sd = WholeMapping(labels_file)]
  /\ UNCHANGED << store, cls, env, known_encodings, known_labels, student_data,
                  recognizer, fresh, saved, last, saver >>

NextConcurrent ==
  \/ \E batch \in Batches : BeginTrain(batch)
  \/ OpenEncodings
  \/ DumpEncodings
  \/ SaveRecognizer
  \/ OpenLabels
  \/ DumpLabels
  \/ StartLoad
  \/ ReadEncodings
  \/ ReadLabels
  \/ ReadModel
  \/ ReadMapping

SpecConcurrent == InitConcurrent /\ [][NextConcurrent]_vars

-----------------------------------------------------------------------------
(* What the claims speak of                                                 *)

\* The last call was a training run.
Trained == last.op = "train"

\* The labelIds of the enrollable rows of the last batch, in order.
EnrolledLabels ==
  [i \in 1..Len(last.enrollable) |-> Students[last.enrollable[i]].labelId]

\* The gallery in memory holds one entry per enrollable row of the last
\* batch, labelled in order, and an identity for exactly their labelIds.
GalleryIsTheEnrollableRows ==
  /\ DOMAIN student_data = {EnrolledLabels[i] : i \in 1..Len(EnrolledLabels)}
  /\ IF last.path = "fr"
     THEN /\ Len(known_encodings) = Len(last.enrollable)
          /\ known_labels = EnrolledLabels
     ELSE /\ recognizer.set
          /\ Len(recognizer.hists) = Len(last.enrollable)
          /\ [i \in 1..Len(recognizer.hists) |-> recognizer.hists[i].label] = EnrolledLabels

\* The run reported success with the count of the enrollable rows.
CountsTheEnrollableRows ==
  /\ last.delivered
  /\ last.result.success
  /\ last.result.trained_count = Len(last.enrollable)
  /\ GalleryIsTheEnrollableRows

\* The active backend can find faces: the embedding backend, or the
\* classifier backend with its cv2.face module and a cascade.
BackendDetects == env.fr \/ (env.face /\ env.cascade)

\* C1 as stated: in either backend a batch with an enrollable row trains
\* successfully, counts exactly the enrollable rows and enrolls only them.
C1_AnyBackendCounts ==
  (Trained /\ last.enrollable # <<>> /\ BackendDetects) => CountsTheEnrollableRows

\* C1, amended: when the active backend can detect faces (the embedding
\* capability, or cv2.face with its cascade) and the file writes of the save
\* succeed, a batch with at least one enrollable row returns success = true
\* and a trained count equal to the number of rows whose image existed and
\* yielded a face; the rows with a missing image, an unreadable image or no
\* face are skipped without aborting the batch and add nothing to the
\* gallery.  (A failed write makes the classifier run return failure.)
C1_TrainedCount ==
  (Trained /\ last.enrollable # <<>> /\ BackendDetects /\ last.wfault = "none")
  => CountsTheEnrollableRows

\* A classifier run that enrolled one row of a batch and skipped another.
C1_Witness ==
  /\ Trained
  /\ last.path = "cv"
  /\ last.skipped
  /\ last.enrollable # <<>>
  /\ last.result.success
  /\ last.result.trained_count = 1

\* A fresh process that finds no file of the store and is asked to recognise
\* an existing image reports that there is no model.
NoGalleryNoModel ==
  (/\ last.op = "recognize"
   /\ last.fresh
   /\ path_exists(last.image)
   /\ encodings_file.st = "absent"
   /\ labels_file.st = "absent"
   /\ model_file.st = "absent")
  => (/\ last.delivered
      /\ ~last.result.success
      /\ last.result.message \in {"Model not trained", "Model not loaded"})

\* A step that trains on a batch without an enrollable row.
FruitlessTraining == last'.op = "train" /\ last'.enrollable = <<>> /\ cls = "service"

\* C2 as stated: a batch without an enrollable row fails with the message
\* 'No faces found in training images' and leaves the three files as they
\* were, so that a fresh process without a gallery still reports not-trained.
C2_AlwaysNoFacesFound ==
  [][ /\ FruitlessTraining =>
         /\ ~last'.result.success
         /\ last'.result.message = "No faces found in training images"
         /\ store' = store
      /\ NoGalleryNoModel' ]_vars

\* C2, amended: a batch in which every row's image is missing, unreadable or
\* faceless returns success = false and writes nothing (the encodings file,
\* the labels file and the model file stay as they were, and a fresh process
\* that had no gallery still reports not-trained); the message is 'No faces
\* found in training images' when the process has the embedding capability
\* or the cv2.face module, and the install-the-libraries message when it has
\* neither.
C2_NothingPersisted ==
  [][ /\ FruitlessTraining =>
         /\ ~last'.result.success
         /\ last'.result.message =
              IF env.fr \/ env.face THEN "No faces found in training images"
              ELSE "Python face recognition libraries not installed"
         /\ store' = store
      /\ NoGalleryNoModel' ]_vars

\* A failed run over rows that are all skipped, in a store that held an
\* embedding gallery.
C2_Witness ==
  /\ Trained
  /\ last.enrollable = <<>>
  /\ last.skipped
  /\ ~last.result.success
  /\ last.result.message = "No faces found in training images"
  /\ saved.valid

\* The last call recognised an image (recognize_face or recognize_frame).
Recognized == last.op = "recognize"

\* A successful training run of the process's backend persisted a gallery
\* that is still in the store: the embedding files of a completed save, or
\* the classifier's model file with its mapping.
GalleryPersisted ==
  \/ env.fr /\ saved.valid
  \/ /\ ~env.fr
     /\ env.face
     /\ model_file.st = "ok"
     /\ labels_file.st = "ok"
     /\ labels_file.fmt = "cv"

\* C3: a fresh process, service or streaming, that is asked to recognise an
\* existing image after a training run persisted its gallery runs a matcher
\* and does not answer 'Model not trained' / 'Model not loaded'.
C3_FreshProcessLoadsGallery ==
  (Recognized /\ last.fresh /\ path_exists(last.image) /\ GalleryPersisted)
  => (/\ last.path # "none"
      /\ last.result.message \notin {"Model not trained", "Model not loaded"})

-----------------------------------------------------------------------------
(* The matcher                                                              *)

\* The least distance of a query vector to the enrolled vectors.
MinDistance(q) ==
  CHOOSE d \in {Abs(known_encodings[i] - q) : i \in 1..Len(known_encodings)} :
    \A i \in 1..Len(known_encodings) : d <= Abs(known_encodings[i] - q)

\* The first enrolled entry at the least distance.
FirstNearest(q) ==
  CHOOSE i \in 1..Len(known_encodings) :
    /\ Abs(known_encodings[i] - q) = MinDistance(q)
    /\ \A j \in 1..(i - 1) : Abs(known_encodings[j] - q) # MinDistance(q)

\* The faces of the image of the last call.
QueryFaces == ImageFaces(last.image)

\* The last call ran the embedding matcher on a readable image with faces.
EmbeddingMatch ==
  /\ Recognized
  /\ last.path = "fr"
  /\ Readable(last.image)
  /\ QueryFaces # <<>>

\* The acceptance rule for the i-th face of the image, d its least distance:
\* the confidence is 1 - d; the nearest entry's labelId is carried when
\* d <= 0.6 and 1 - d > 0.5, and -1 otherwise.
FollowsAcceptanceRule(i) ==
  LET d == MinDistance(QueryFaces[i].enc)
      m == last.result.items[i]
  IN  /\ m.confidence = 100 - d
      /\ m.location = i
      /\ IF d <= 60 /\ 100 - d > 50
         THEN m.labelId = known_labels[FirstNearest(QueryFaces[i].enc)]
         ELSE m.labelId = -1
      /\ d = 0 => (m.confidence = 100 /\ m.labelId = known_labels[FirstNearest(QueryFaces[i].enc)])
      /\ d >= 60 => m.labelId = -1

\* C4: the embedding matcher, on a gallery of (vector, labelId) pairs, gives
\* one entry per face in detection order, each with confidence 1 - d for the
\* least distance d, carrying the labelId of the first nearest entry when
\* d <= 0.6 and 1 - d > 0.5 and labelId -1 otherwise.
C4_AcceptanceRule ==
  EmbeddingMatch =>
    /\ Len(known_labels) = Len(known_encodings) =>
         /\ last.result.success
         /\ Len(last.result.items) = Len(QueryFaces)
    /\ last.result.success =>
         \A i \in 1..Len(last.result.items) : FollowsAcceptanceRule(i)

\* A face accepted at a tie: two entries with different labelIds at the
\* least distance, and the first one's labelId reported.
C4_Witness ==
  /\ EmbeddingMatch
  /\ last.result.success
  /\ Len(known_labels) = Len(known_encodings)
  /\ \E i \in 1..Len(last.result.items) :
       \E j, k \in 1..Len(known_encodings) :
         /\ j < k
         /\ Abs(known_encodings[j] - QueryFaces[i].enc) = MinDistance(QueryFaces[i].enc)
         /\ Abs(known_encodings[k] - QueryFaces[i].enc) = MinDistance(QueryFaces[i].enc)
         /\ known_labels[j] # known_labels[k]
         /\ last.result.items[i].labelId = known_labels[j]

\* C5: every entry of a result list has a confidence within [0, 1].
C5_ConfidenceInUnitRange ==
  Recognized =>
    \A i \in 1..Len(last.result.items) :
      /\ last.result.items[i].confidence >= 0
      /\ last.result.items[i].confidence <= 100

\* C6: every invocation, the start of a process that loads the gallery
\* included, ends with a result object delivered to the caller.
C6_AlwaysStructuredResult == last.delivered

-----------------------------------------------------------------------------
(* The store                                                                *)

\* The last call loaded the embedding files: _load_model of the service, or
\* load_model of a streaming process with the embedding capability.
EmbeddingLoad == last.op = "load" /\ last.path = "fr"

\* C7: a load that follows a completed embedding save, with no write to the
\* two files in between, leaves in memory the feature vectors, the labelIds
\* and the identity mapping that were in memory at the save.
C7_SaveLoadRoundTrip ==
  (EmbeddingLoad /\ saved.valid) =>
    /\ last.delivered
    /\ last.result.success
    /\ known_encodings = saved.encodings
    /\ known_labels = saved.labels
    /\ student_data = saved.student_data

\* A streaming process that loaded a saved gallery of two entries.
C7_Witness ==
  /\ EmbeddingLoad
  /\ saved.valid
  /\ last.cls = "realtime"
  /\ Len(known_encodings) = 2
  /\ DOMAIN student_data = {1, 2}

\* Nothing is loaded: the store was treated as absent.
NothingLoaded ==
  /\ known_encodings = <<>>
  /\ known_labels = <<>>
  /\ student_data = EmptyMap
  /\ ~recognizer.set

\* An embedding gallery: every vector has its labelId and every labelId its
\* identity record, and no classifier model is mixed in.
EmbeddingGallery ==
  /\ known_encodings # <<>>
  /\ Len(known_labels) = Len(known_encodings)
  /\ \A i \in 1..Len(known_labels) : known_labels[i] \in DOMAIN student_data
  /\ ~recognizer.set

\* A classifier gallery: every label of the model has its identity record,
\* and no feature vector is mixed in.
ClassifierGallery ==
  /\ recognizer.set
  /\ \A i \in 1..Len(recognizer.hists) : recognizer.hists[i].label \in DOMAIN student_data
  /\ known_encodings = <<>>
  /\ known_labels = <<>>

\* C8: the load at the start of a streaming process leaves a complete,
\* consistent gallery of one backend, or nothing.
C8_LoadIsAllOrNothing ==
  (last.op = "load" /\ last.delivered /\ last.cls = "realtime")
  => (NothingLoaded \/ EmbeddingGallery \/ ClassifierGallery)

-----------------------------------------------------------------------------
(* The backend                                                              *)

\* C9: with the embedding capability no training or recognition call runs
\* the classifier path and no classifier model is ever set; without it no
\* such call runs the embedding path.
C9_BackendExclusive ==
  /\ env.fr => ~recognizer.set
  /\ (Trained \/ Recognized) =>
       /\ env.fr => last.path # "cv"
       /\ ~env.fr => last.path # "fr"

\* A recognition with the embedding capability and an empty embedding
\* gallery, while a classifier model lies in the store.
C9_Witness ==
  /\ Recognized
  /\ env.fr
  /\ known_encodings = <<>>
  /\ path_exists(last.image)
  /\ model_file.st = "ok"
  /\ labels_file.st = "ok"
  /\ last.path = "none"

\* A gallery is loaded, the image decodes and shows no face, and the
\* backend's detector is there.
NoFaceInQuery ==
  /\ Recognized
  /\ path_exists(last.image)
  /\ Readable(last.image)
  /\ QueryFaces = <<>>
  /\ \/ env.fr /\ known_encodings # <<>>
     \/ recognizer.set /\ env.cascade

\* C10: detection that returns no face is answered by recognize_frame with
\* success and an empty faces list and by recognize_face with the failure
\* 'No face detected', in both backends; and with a gallery loaded and a
\* readable image without a face, detection runs and returns no face.
C10_ZeroFaces ==
  /\ NoFaceInQuery => last.detected = 0
  /\ (Recognized /\ last.detected = 0) =>
       /\ last.delivered
       /\ IF last.cls = "realtime"
          THEN /\ last.result.success
               /\ last.result.key = "faces"
               /\ last.result.items = <<>>
          ELSE /\ ~last.result.success
               /\ last.result.message = "No face detected"

\* recognize_face on a faceless image with a trained classifier.
C10_Witness ==
  /\ NoFaceInQuery
  /\ last.cls = "service"
  /\ last.path = "cv"
  /\ last.detected = 0

-----------------------------------------------------------------------------
(* The gallery invariant                                                    *)

\* The labelIds the gallery in memory refers to: those of the feature
\* entries and those the classifier was trained with.
ReferencedLabels ==
  {known_labels[i] : i \in 1..Len(known_labels)}
    \cup {recognizer.hists[i].label : i \in 1..Len(recognizer.hists)}

\* The labelIds the three files hold, as labels or as keys of a mapping.
PersistedLabels ==
  {labels_file.labels[i] : i \in 1..Len(labels_file.labels)}
    \cup DOMAIN labels_file.student_data
    \cup {model_file.data[i].label : i \in 1..Len(model_file.data)}

\* C11: after every training run and after every load, every labelId the
\* feature entries or the trained classifier refer to is a key of the
\* identity mapping, and -1 is neither a key of the mapping nor in the
\* persisted data, whatever labelIds the training rows carry.
C11_GalleryInvariant ==
  (last.op \in {"train", "load"} /\ last.delivered) =>
    /\ ReferencedLabels \subseteq DOMAIN student_data
    /\ Unknown \notin DOMAIN student_data
    /\ Unknown \notin PersistedLabels

-----------------------------------------------------------------------------
(* The save under a concurrent load                                         *)

\* The loader holds nothing.
LoaderHoldsNothing ==
  /\ loader.ke = <<>>
  /\ loader.kl = <<>>
  /\ loader.sd = EmptyMap
  /\ ~loader.rec.set

\* The loader holds the gallery of run r, whole.
LoaderHoldsRun(r) ==
  IF r.path = "fr"
  THEN /\ loader.ke = r.g.encodings
       /\ loader.kl = r.g.labels
       /\ loader.sd = r.g.student_data
       /\ ~loader.rec.set
  ELSE /\ loader.rec = Recognizer(TrainedHistograms(r.g))
       /\ loader.sd = r.g.student_data
       /\ loader.ke = <<>>
       /\ loader.kl = <<>>

\* C12: a load that runs while successful training runs save never meets a
\* half-written file, and what it ends with is nothing (no gallery was
\* there) or the whole gallery of one run: feature data and label/identity
\* data of the same run.
C12_AtomicReplace ==
  /\ loader.pc # "raised"
  /\ loader.pc = "done" => (LoaderHoldsNothing \/ \E r \in saver.runs : LoaderHoldsRun(r))

-----------------------------------------------------------------------------
(* Success and the store                                                    *)

\* The store holds what the run just made: for the embedding backend the
\* feature vectors in one file and the labels with the identity mapping in
\* the other, for the classifier the trained model and the mapping.
StoreHoldsTheRun ==
  IF last.path = "fr"
  THEN /\ encodings_file = EncodingsPickle(known_encodings)
       /\ labels_file = LabelsPickle(known_labels, student_data)
  ELSE /\ model_file = ModelFile(recognizer.hists)
       /\ labels_file = MappingPickle(student_data)

\* The run came to its save and a write of it failed.
WriteFailed ==
  /\ Trained
  /\ last.enrollable # <<>>
  /\ BackendDetects
  /\ last.wfault # "none"

\* C13: a training run that returns success = true has its gallery in the
\* store, and a run whose save met a write failure returns a failure.
C13_SuccessMeansPersisted ==
  /\ (Trained /\ last.result.success) => StoreHoldsTheRun
  /\ WriteFailed => ~last.result.success

-----------------------------------------------------------------------------
(* The gallery in memory across training runs                               *)

\* A step that is a training run.
TrainingRun == cls = "service" /\ last'.op = "train"

\* The last run came to assign self.recognizer: the classifier path found a
\* face and saved its model.
RunSetRecognizer ==
  /\ last.path = "cv"
  /\ env.face
  /\ env.cascade
  /\ last.enrollable # <<>>
  /\ last.wfault # "first"

\* The last run failed before it put anything of its own in memory.
RunLeftNothing ==
  /\ ~last.result.success
  /\ ~RunSetRecognizer

\* recognize_face of every image file there is answers 'Model not trained'.
AnswersNotTrained ==
  \A img \in Images :
    path_exists(img) => recognize_face(img).result.message = "Model not trained"

\* C14: after a training run the gallery in memory is that of the run alone:
\* the feature entries are the run's, a classifier model is there only if
\* the run set it, and after a run that left nothing recognize_face matches
\* against nothing and answers 'Model not trained'.
C14_RunStartsEmpty ==
  [][ TrainingRun =>
        /\ Len(known_encodings') = (IF last'.path = "fr" THEN Len(last'.enrollable) ELSE 0)
        /\ Len(known_labels') = Len(known_encodings')
        /\ recognizer'.set => RunSetRecognizer'
        /\ RunLeftNothing' => AnswersNotTrained' ]_vars

====
